---------------------------- MODULE Spec2Model ----------------------------
(***************************************************************************)
(* Model of analyze_spot_and_temperature.py: the numeric normaliser, the   *)
(* spot-log and temperature-log loaders, the nearest-time alignment and    *)
(* the order in which main writes its two charts.                          *)
(*                                                                         *)
(* Text is a sequence of one-character strings.  A call either returns a   *)
(* value or raises: [exc |-> "none", val |-> v] or [exc |-> e, val |-> 0]. *)
(* A float is [nan |-> FALSE, v |-> n] (n in units of 10^-MaxTokenLen) or  *)
(* the not-a-number NaN.  An instant is a number of seconds.               *)
(***************************************************************************)
EXTENDS Integers, Sequences, FiniteSets, TLC

VARIABLES pc, input, result, temperature_df, spot_df, merged, files, reads

vars == <<pc, input, result, temperature_df, spot_df, merged, files, reads>>

\* ------------------------------------------------------------------ bounds
\* Longest token handed to clean_number.
MaxTokenLen == 4

\* ------------------------------------------------------------ call results
Return(v) == [exc |-> "none", val |-> v]

Raise(e) == [exc |-> e, val |-> 0]

None == [exc |-> "pending", val |-> 0]

\* -------------------------------------------------------------- text (str)
RECURSIVE Pow10(_)
Pow10(n) == IF n = 0 THEN 1 ELSE 10 * Pow10(n - 1)

Digits == {"0", "1", "2", "3", "4", "5", "6", "7", "8", "9"}

DigitVal(c) ==
    CASE c = "0" -> 0 [] c = "1" -> 1 [] c = "2" -> 2 [] c = "3" -> 3
      [] c = "4" -> 4 [] c = "5" -> 5 [] c = "6" -> 6 [] c = "7" -> 7
      [] c = "8" -> 8 [] c = "9" -> 9

\* int() of a run of decimal digits.
RECURSIVE IntOf(_)
IntOf(s) ==
    IF s = <<>> THEN 0
    ELSE 10 * IntOf(SubSeq(s, 1, Len(s) - 1)) + DigitVal(s[Len(s)])

IsSpace(c) == c \in {" ", "\t", "\n"}

\* str.strip(): leading and trailing whitespace removed.
RECURSIVE Strip(_)
Strip(s) ==
    IF s = <<>> THEN s
    ELSE IF IsSpace(Head(s)) THEN Strip(Tail(s))
    ELSE IF IsSpace(s[Len(s)]) THEN Strip(SubSeq(s, 1, Len(s) - 1))
    ELSE s

\* str.replace(old, new) for a one-character old and a new of any length.
RECURSIVE Replace(_, _, _)
Replace(s, old, new) ==
    IF s = <<>> THEN <<>>
    ELSE (IF Head(s) = old THEN new ELSE <<Head(s)>>) \o Replace(Tail(s), old, new)

\* str.count(c)
Count(s, c) == Cardinality({i \in 1..Len(s) : s[i] = c})

\* str.find(c), 0-based as in Python, -1 when absent.
Find(s, c) ==
    IF \E i \in 1..Len(s) : s[i] = c
    THEN (CHOOSE i \in 1..Len(s) : s[i] = c /\ \A j \in 1..(i - 1) : s[j] # c) - 1
    ELSE -1

\* s[:n] and s[n:] with a 0-based n.
SliceTo(s, n) == SubSeq(s, 1, n)

SliceFrom(s, n) == SubSeq(s, n + 1, Len(s))

\* s.lower() on the letters the column names use.
LowerChar(c) ==
    CASE c = "T" -> "t" [] c = "D" -> "d" [] c = "C" -> "c" [] c = "E" -> "e"
      [] c = "M" -> "m" [] c = "I" -> "i" [] c = "A" -> "a" [] c = "P" -> "p"
      [] c = "G" -> "g" [] c = "S" -> "s" [] OTHER -> c

Lower(s) == [i \in 1..Len(s) |-> LowerChar(s[i])]

\* sub in s
Contains(s, sub) ==
    \E i \in 0..(Len(s) - Len(sub)) : SubSeq(s, i + 1, i + Len(sub)) = sub

\* ----------------------------------------------------------------- floats
NaN == [nan |-> TRUE, v |-> 0]

Num(n) == [nan |-> FALSE, v |-> n]

\* The missing value read_csv leaves in an empty cell (pd.isna is true of it).
NA == <<"<NA>">>

isna(value) == value = NA

\* float(text) on text made of digits, dots, commas and blanks: surrounding
\* whitespace is ignored, then at most one dot and at least one digit.
float(text) ==
    LET t == Strip(text)
        dot == Find(t, ".")
        whole == IF dot < 0 THEN t ELSE SliceTo(t, dot)
        frac == IF dot < 0 THEN <<>> ELSE SliceFrom(t, dot + 1)
    IN  IF /\ \A i \in 1..Len(whole) : whole[i] \in Digits
           /\ \A i \in 1..Len(frac) : frac[i] \in Digits
           /\ Len(whole) + Len(frac) > 0
           /\ Len(frac) <= MaxTokenLen
        THEN Return(Num(IntOf(whole) * Pow10(MaxTokenLen)
                        + IntOf(frac) * Pow10(MaxTokenLen - Len(frac))))
        ELSE Raise("ValueError")

\* clean_number with the first-dot rule dropped: the text goes to float as is.
clean_number_no_fixup(value) ==
    IF isna(value) THEN Return(NaN)
    ELSE float(Replace(Strip(value), ",", <<".">>))

clean_number(value) ==
    IF isna(value) THEN Return(NaN)
    ELSE LET text == Replace(Strip(value), ",", <<".">>)
             first_dot == Find(text, ".")
         IN  IF Count(text, ".") > 1
             THEN float(SliceTo(text, first_dot + 1)
                        \o Replace(SliceFrom(text, first_dot + 1), ".", <<>>))
             ELSE float(text)

\* ------------------------------------------------- clean_number, on its own
TokenChars == {"0", "1", ".", ",", " "}

RECURSIVE TextsUpTo(_, _)
TextsUpTo(chars, n) ==
    IF n = 0 THEN {<<>>}
    ELSE LET shorter == TextsUpTo(chars, n - 1)
         IN  shorter \cup {Append(t, c) : t \in shorter, c \in chars}

Tokens == TextsUpTo(TokenChars, MaxTokenLen) \cup {NA}

Idle ==
    /\ temperature_df = <<>>
    /\ spot_df = <<>>
    /\ merged = <<>>
    /\ files = {}
    /\ reads = {}

InitClean ==
    /\ pc = "call"
    /\ input \in Tokens
    /\ result = None
    /\ Idle

CallCleanNumber ==
    /\ pc = "call"
    /\ result' = clean_number(input)
    /\ pc' = "return"
    /\ UNCHANGED <<input, temperature_df, spot_df, merged, files, reads>>

SpecClean == InitClean /\ [][CallCleanNumber]_vars

\* The text the normaliser is specified to parse: every comma a dot, then of
\* several dots only the first one kept, the other characters in their order.
NormalizedText(token) ==
    LET dotted == [i \in 1..Len(token) |-> IF token[i] = "," THEN "." ELSE token[i]]
        firstDot == CHOOSE i \in 1..Len(dotted) :
                        dotted[i] = "." /\ \A j \in 1..(i - 1) : dotted[j] # "."
        Keep(i) == dotted[i] # "." \/ i = firstDot
        RECURSIVE Kept(_)
        Kept(i) == IF i > Len(dotted) THEN <<>>
                   ELSE (IF Keep(i) THEN <<dotted[i]>> ELSE <<>>) \o Kept(i + 1)
    IN  IF Count(dotted, ".") > 1 THEN Kept(1) ELSE dotted

\* C6: clean_number parses the token with every comma replaced by a dot and,
\* when that leaves more than one dot, only the first dot kept (all other
\* characters in their order); a missing token gives NaN without an error.
C6_CleanNumberNormalizes ==
    pc = "return" =>
        IF isna(input) THEN result = Return(NaN)
        ELSE result = float(NormalizedText(input))

\* A token with two dots was parsed to a number.
C6_Witness ==
    /\ pc = "return"
    /\ ~isna(input)
    /\ Count(Replace(input, ",", <<".">>), ".") > 1
    /\ result.exc = "none"


\* ------------------------------------------------ parse_spot_start_datetime
DateDigits == 8

TimeDigits == 6

SpotLiteral == <<"s", "p", "o", "t", "_", "p", "o", "s", "i", "t", "i", "o", "n", "_">>

DotTxt == <<".", "t", "x", "t">>

FilenameFormatError == "ValueError: filename does not match spot_position_YYYYMMDD_HHMMSS.txt"

StrptimeError == "ValueError: time data does not match format"

AllDigits(s) == \A i \in 1..Len(s) : s[i] \in Digits

PatternLen == Len(SpotLiteral) + DateDigits + 1 + TimeDigits + Len(DotTxt)

\* The pattern spot_position_(\d{8})_(\d{6})\.txt$ matched from 0-based
\* position i; $ matches at the end and before a final newline.
PatternMatchesAt(name, i) ==
    LET at(k, n) == SubSeq(name, i + k + 1, i + k + n)
        lit == Len(SpotLiteral)
        rest == SliceFrom(name, i + PatternLen)
    IN  /\ i + PatternLen <= Len(name)
        /\ at(0, lit) = SpotLiteral
        /\ AllDigits(at(lit, DateDigits))
        /\ at(lit + DateDigits, 1) = <<"_">>
        /\ AllDigits(at(lit + DateDigits + 1, TimeDigits))
        /\ at(lit + DateDigits + 1 + TimeDigits, Len(DotTxt)) = DotTxt
        /\ rest \in {<<>>, <<"\n">>}

\* SPOT_FILENAME_PATTERN.search(name): the leftmost position that matches,
\* -1 when none does.
PatternSearch(name) ==
    IF \E i \in 0..Len(name) : PatternMatchesAt(name, i)
    THEN CHOOSE i \in 0..Len(name) :
             PatternMatchesAt(name, i) /\ \A j \in 0..(i - 1) : ~PatternMatchesAt(name, j)
    ELSE -1

IsLeap(y) == (y % 4 = 0 /\ y % 100 # 0) \/ y % 400 = 0

DaysInMonth(y, m) ==
    IF m = 2 THEN (IF IsLeap(y) THEN 29 ELSE 28)
    ELSE IF m \in {4, 6, 9, 11} THEN 30 ELSE 31

RECURSIVE DaysBeforeMonth(_, _)
DaysBeforeMonth(y, m) ==
    IF m = 1 THEN 0 ELSE DaysBeforeMonth(y, m - 1) + DaysInMonth(y, m - 1)

\* The proleptic Gregorian ordinal of a day, counted from 2000-01-01.
DaysSince2000(y, mo, d) ==
    LET py == y - 1
    IN  py * 365 + (py \div 4) - (py \div 100) + (py \div 400)
        + DaysBeforeMonth(y, mo) + (d - 1) - 730119

\* A datetime as the seconds since 2000-01-01 00:00:00 (the file names of the
\* model lie in 2023 and 2024, within 32-bit seconds of it).
DatetimeSeconds(y, mo, d, h, mi, s) ==
    DaysSince2000(y, mo, d) * 86400 + h * 3600 + mi * 60 + s

\* datetime.strptime(text, "%Y%m%d%H%M%S") on fourteen digits.
strptime(text) ==
    LET y == IntOf(SubSeq(text, 1, 4))
        mo == IntOf(SubSeq(text, 5, 6))
        d == IntOf(SubSeq(text, 7, 8))
        h == IntOf(SubSeq(text, 9, 10))
        mi == IntOf(SubSeq(text, 11, 12))
        s == IntOf(SubSeq(text, 13, 14))
    IN  IF /\ y >= 1
           /\ mo \in 1..12
           /\ d >= 1
           /\ d <= DaysInMonth(y, mo)
           /\ h <= 23
           /\ mi <= 59
           /\ s <= 59
        THEN Return(DatetimeSeconds(y, mo, d, h, mi, s))
        ELSE Raise(StrptimeError)

parse_spot_start_datetime(name) ==
    LET match == PatternSearch(name)
        date_str == SubSeq(name, match + Len(SpotLiteral) + 1,
                           match + Len(SpotLiteral) + DateDigits)
        time_str == SubSeq(name, match + Len(SpotLiteral) + DateDigits + 2,
                           match + Len(SpotLiteral) + DateDigits + 1 + TimeDigits)
    IN  IF match < 0 THEN Raise(FilenameFormatError)
        ELSE strptime(date_str \o time_str)

\* ------------------------------------------------------ load_spot_positions
\* float arithmetic: not-a-number propagates.
FSub(a, b) == IF a.nan \/ b.nan THEN NaN ELSE Num(a.v - b.v)

FAdd(a, b) == IF a.nan \/ b.nan THEN NaN ELSE Num(a.v + b.v)

FSquare(a) == IF a.nan THEN NaN ELSE Num(a.v * a.v)

required_columns ==
    <<"frame_index", "center_x_mm", "center_y_mm", "minor_axis_mm", "major_axis_mm",
      "angle_deg">>

SchemaError == "ValueError: spot file is missing required columns"

IntCastError == "ValueError: cannot convert to integer"

NumericParseError == "ValueError: could not convert string to float"

KeyError == "KeyError: 0"

\* astype(int) of one frame_index cell: a run of digits, else an error.
astype_int(cell) ==
    IF isna(cell) \/ cell = <<>> \/ ~AllDigits(cell) THEN Raise(IntCastError)
    ELSE Return(IntOf(cell))

\* spot_df[column].apply(clean_number) over the five parameter columns.
CleanedRows(rows) ==
    [i \in 1..Len(rows) |->
        [c \in {required_columns[k] : k \in 2..Len(required_columns)} |->
            clean_number(rows[i][c])]]

\* The displacement taken from the row whose frame_index is 0 (the first such
\* row), not from the first row of the file.
ReferenceRowByFrameIndex(frames) ==
    IF \E i \in 1..Len(frames) : frames[i].frame_index = 0
    THEN CHOOSE i \in 1..Len(frames) :
             frames[i].frame_index = 0
             /\ \A j \in 1..(i - 1) : frames[j].frame_index # 0
    ELSE 1

\* spot_df.at[0, ...]: the row labelled 0, the first row of the file.
ReferenceRow(frames) == 1

\* Lines 93-101: timestamp and r_squared_shift_mm2 of every row.
WithDerivedColumns(frames, start_dt) ==
    LET ref == ReferenceRow(frames)
        reference_x == frames[ref].center_x_mm
        reference_y == frames[ref].center_y_mm
    IN  [i \in 1..Len(frames) |->
            [frame_index |-> frames[i].frame_index,
             center_x_mm |-> frames[i].center_x_mm,
             center_y_mm |-> frames[i].center_y_mm,
             minor_axis_mm |-> frames[i].minor_axis_mm,
             major_axis_mm |-> frames[i].major_axis_mm,
             angle_deg |-> frames[i].angle_deg,
             timestamp |-> start_dt + 60 * frames[i].frame_index,
             r_squared_shift_mm2 |->
                 FAdd(FSquare(FSub(frames[i].center_x_mm, reference_x)),
                      FSquare(FSub(frames[i].center_y_mm, reference_y)))]]

\* A spot file is [name, columns, rows]: its name, the columns of its header
\* and its rows, each a record of cells (a cell is a token or NA).
load_spot_positions(spot_file) ==
    LET start_dt == parse_spot_start_datetime(spot_file.name)
        rows == spot_file.rows
        cleaned == CleanedRows(rows)
        frames == [i \in 1..Len(rows) |->
                      [frame_index |-> astype_int(rows[i].frame_index).val,
                       center_x_mm |-> cleaned[i].center_x_mm.val,
                       center_y_mm |-> cleaned[i].center_y_mm.val,
                       minor_axis_mm |-> cleaned[i].minor_axis_mm.val,
                       major_axis_mm |-> cleaned[i].major_axis_mm.val,
                       angle_deg |-> cleaned[i].angle_deg.val]]
    IN  IF start_dt.exc # "none" THEN start_dt
        ELSE IF \E k \in 1..Len(required_columns) :
                    required_columns[k] \notin spot_file.columns
        THEN Raise(SchemaError)
        ELSE IF \E i \in 1..Len(rows) : astype_int(rows[i].frame_index).exc # "none"
        THEN Raise(IntCastError)
        ELSE IF \E i \in 1..Len(rows) : \E c \in DOMAIN cleaned[i] :
                    cleaned[i][c].exc # "none"
        THEN Raise(NumericParseError)
        ELSE IF Len(rows) = 0 THEN Raise(KeyError)
        ELSE Return(WithDerivedColumns(frames, start_dt.val))

\* Line 73 runs only once line 71 has returned: the body of the spot file is
\* read when, and only when, the name parsed.
SpotBodyRead(spot_file) == parse_spot_start_datetime(spot_file.name).exc = "none"

CallLoadSpotPositions ==
    /\ pc = "call"
    /\ result' = load_spot_positions(input)
    /\ reads' = IF SpotBodyRead(input) THEN reads \cup {"spot"} ELSE reads
    /\ pc' = "return"
    /\ UNCHANGED <<input, temperature_df, spot_df, merged, files>>

\* --------------------------------------------- the spot loader, on its own
MaxSpotRows == 2

RECURSIVE SeqsUpTo(_, _)
SeqsUpTo(S, n) ==
    IF n = 0 THEN {<<>>}
    ELSE LET shorter == SeqsUpTo(S, n - 1)
         IN  shorter \cup {Append(q, x) : q \in shorter, x \in S}

AllColumns == {required_columns[k] : k \in 1..Len(required_columns)}

StandardName == SpotLiteral \o <<"2", "0", "2", "4", "0", "5", "2", "2", "_", "1", "5", "3", "0", "0", "0">> \o DotTxt

SpotRow(f, x, y, a) ==
    [frame_index |-> f, center_x_mm |-> x, center_y_mm |-> y,
     minor_axis_mm |-> <<"1">>, major_axis_mm |-> <<"2">>, angle_deg |-> a]

\* Rows with missing cells and a token that is no number.
SpotRowsWithGaps ==
    {SpotRow(f, x, y, a) : f \in {<<"0">>, <<"1">>, NA}, x \in {<<"1">>, <<"1", ",", "2">>, NA},
                           y \in {<<"1">>, NA}, a \in {<<"0">>, <<".">>}}

\* Fully populated rows, in any order of frame_index.
SpotRowsComplete ==
    {SpotRow(f, x, y, <<"0">>) : f \in {<<"0">>, <<"1">>, <<"2">>, <<"3">>},
                                 x \in {<<"1">>, <<"1", ",", "2">>},
                                 y \in {<<"1">>, <<"1", ".", "2", ".", "0">>}}

\* A log holds one row per frame: no frame_index twice.
DistinctFrames(rows) ==
    \A i, j \in 1..Len(rows) : rows[i].frame_index = rows[j].frame_index => i = j

InitSpot ==
    /\ pc = "call"
    /\ input \in [name : {StandardName},
                  columns : {AllColumns, AllColumns \ {"angle_deg"}},
                  rows : SeqsUpTo(SpotRowsWithGaps, MaxSpotRows)]
    /\ result = None
    /\ Idle

SpecSpot == InitSpot /\ [][CallLoadSpotPositions]_vars

InitFrames ==
    /\ pc = "call"
    /\ input \in [name : {StandardName},
                  columns : {AllColumns},
                  rows : {r \in SeqsUpTo(SpotRowsComplete, MaxSpotRows) :
                              DistinctFrames(r)}]
    /\ result = None
    /\ Idle

SpecFrames == InitFrames /\ [][CallLoadSpotPositions]_vars

NamePrefixes == {<<>>,
     <<"x">>,
     <<"r", "u", "n", "_">>}

NameStems == {<<"s", "p", "o", "t", "_", "p", "o", "s", "i", "t", "i", "o", "n", "_">>,
     <<"s", "p", "o", "t", "_">>}

NameDates == {<<"2", "0", "2", "4", "0", "5", "2", "2">>,
     <<"2", "0", "2", "3", "0", "2", "2", "8">>,
     <<"2", "0", "2", "4", "0", "2", "2", "9">>,
     <<"2", "0", "2", "4", "0", "5", "2">>,
     <<"2", "0", "2", "4", "0", "5", "2", "a">>}

NameSeparators == {<<"_">>, <<"-">>}

NameTimes == {<<"1", "5", "3", "0", "0", "0">>,
     <<"2", "3", "5", "9", "5", "9">>,
     <<"1", "5", "3", "0", "0">>}

NameSuffixes == {<<".", "t", "x", "t">>,
     <<".", "c", "s", "v">>,
     <<".", "t", "x">>,
     <<"x", "t", "x", "t">>,
     <<".", "t", "x", "t", ".", "b", "a", "k">>}

SpotNames ==
    {p \o st \o d \o sep \o t \o x :
        p \in NamePrefixes, st \in NameStems, d \in NameDates,
        sep \in NameSeparators, t \in NameTimes, x \in NameSuffixes}

InitName ==
    /\ pc = "call"
    /\ input \in [name : SpotNames,
                  columns : {AllColumns},
                  rows : {<<SpotRow(<<"0">>, <<"1">>, <<"1">>, <<"0">>)>>}]
    /\ result = None
    /\ Idle

SpecName == InitName /\ [][CallLoadSpotPositions]_vars

\* A name of the form spot_position_<8 digits>_<6 digits>.txt, nothing else.
WellFormedName(name) ==
    /\ Len(name) = 33
    /\ SubSeq(name, 1, 14) = SpotLiteral
    /\ \A i \in 15..22 : name[i] \in Digits
    /\ name[23] = "_"
    /\ \A i \in 24..29 : name[i] \in Digits
    /\ SubSeq(name, 30, 33) = DotTxt

\* C10: the filename-format error is raised exactly when the name is not of
\* the form spot_position_<8 digits>_<6 digits>.txt; a name not of that form
\* is rejected before the body is read, a name of that form yields a start
\* instant.
C10_RejectsExactlyMalformedNames ==
    pc = "return" =>
        /\ (result.exc = FilenameFormatError) <=> ~WellFormedName(input.name)
        /\ ~WellFormedName(input.name) => "spot" \notin reads
        /\ WellFormedName(input.name) => result.exc = "none"

\* C7 as stated: the first row's r_squared_shift_mm2 is exactly 0.0 in every
\* successful load, missing centre tokens included.
C7_FirstRowShiftAlwaysZero ==
    (pc = "return" /\ result.exc = "none") =>
        result.val[1].r_squared_shift_mm2 = Num(0)

\* C7 amended: the first row's r_squared_shift_mm2 is exactly 0.0 when both of
\* its centre cells are numbers, whatever its frame_index, and not-a-number
\* when either is missing.
C7_FirstRowShiftZeroOrNaN ==
    (pc = "return" /\ result.exc = "none") =>
        result.val[1].r_squared_shift_mm2 =
            IF NA \in {input.rows[1].center_x_mm, input.rows[1].center_y_mm}
            THEN NaN ELSE Num(0)

\* A load of two rows whose first row is not frame 0 and whose second row lies
\* elsewhere: the first row's shift is 0, the second's is not.
C7_Witness ==
    /\ pc = "return"
    /\ result.exc = "none"
    /\ Len(result.val) = 2
    /\ result.val[1].frame_index = 1
    /\ result.val[2].frame_index = 0
    /\ result.val[1].r_squared_shift_mm2 = Num(0)
    /\ ~result.val[2].r_squared_shift_mm2.nan
    /\ result.val[2].r_squared_shift_mm2.v > 0

\* C8: every returned record whose frame_index is 0 has r_squared_shift_mm2
\* exactly 0, whatever the order of the rows.
C8_FrameZeroShiftIsZero ==
    (pc = "return" /\ result.exc = "none") =>
        \A i \in 1..Len(result.val) :
            result.val[i].frame_index = 0 =>
                result.val[i].r_squared_shift_mm2 = Num(0)

\* ------------------------------------------- _identify_temperature_columns
\* A temperature table is [columns, rows, tz]: the names of its header, its
\* rows (one cell per column) and whether its timestamps carry a UTC offset.
\* A cell is a numeric literal, a timestamp text, some other text, or empty.
NumCell(n) == [kind |-> "num", v |-> n]

TimeCell(t) == [kind |-> "time", v |-> t]

TextCell == [kind |-> "text", v |-> 0]

EmptyCell == [kind |-> "na", v |-> 0]

ColumnInferenceError == "ValueError: could not infer timestamp/temperature columns"

IndexError == "IndexError: index 0 is out of bounds"

\* pd.api.types.is_numeric_dtype(df[col]) for column k as read_csv types it:
\* numeric when the table has rows and every cell is a number or empty.
is_numeric_dtype(df, k) ==
    /\ Len(df.rows) > 0
    /\ \A i \in 1..Len(df.rows) : df.rows[i][k].kind \in {"num", "na"}

\* A list comprehension over the columns: the indexes in `kept`, in column
\* order.
RECURSIVE InColumnOrder(_)
InColumnOrder(kept) ==
    IF kept = {} THEN <<>>
    ELSE LET first == CHOOSE k \in kept : \A j \in kept : k <= j
         IN  <<first>> \o InColumnOrder(kept \ {first})

TimeLike(col) ==
    LET low == Lower(col)
    IN  \/ Contains(low, <<"t", "i", "m", "e">>)
        \/ Contains(low, <<"d", "a", "t", "e">>)
        \/ low = <<"t", "i", "m", "e", "s", "t", "a", "m", "p">>

TempLike(col) ==
    LET low == Lower(col)
    IN  \/ Contains(low, <<"t", "e", "m", "p">>)
        \/ Contains(low, <<"d", "e", "g">>)
        \/ Contains(low, <<"c", "e", "l", "s", "i", "u", "s">>)

\* The candidates for the temperature column with only the chosen timestamp
\* column left out, not every time-like column.
ValueCandidatesBesidesChosen(df, timestamp_candidates, wanted) ==
    InColumnOrder({k \in wanted : k # timestamp_candidates[1]})

\* [col for col in df.columns if col not in timestamp_candidates and wanted]
\* for the columns `wanted`.
ValueCandidates(df, timestamp_candidates, wanted) ==
    InColumnOrder({k \in wanted :
                      \A j \in 1..Len(timestamp_candidates) :
                          df.columns[k] # df.columns[timestamp_candidates[j]]})

\* Returns the pair of column names.
_identify_temperature_columns(df) ==
    LET n == Len(df.columns)
        named == InColumnOrder({k \in 1..n : TimeLike(df.columns[k])})
        timestamp_candidates == IF named = <<>> THEN <<1>> ELSE named
        by_name == ValueCandidates(df, timestamp_candidates,
                                   {k \in 1..n : TempLike(df.columns[k])})
        value_candidates ==
            IF by_name # <<>> THEN by_name
            ELSE ValueCandidates(df, timestamp_candidates,
                                 {k \in 1..n : is_numeric_dtype(df, k)})
    IN  IF named = <<>> /\ n = 0 THEN Raise(IndexError)
        ELSE IF value_candidates = <<>> THEN Raise(ColumnInferenceError)
        ELSE Return(<<df.columns[timestamp_candidates[1]],
                      df.columns[value_candidates[1]]>>)

\* The column of that name (read_csv keeps column names distinct).
ColumnIndex(df, col) == CHOOSE k \in 1..Len(df.columns) : df.columns[k] = col

MaxCols == 3

ColumnNames ==
    {<<"T", "i", "m", "e">>,
     <<"d", "a", "t", "e">>,
     <<"T", "e", "m", "p", "C">>,
     <<"D", "E", "G">>,
     <<"C", "e", "l", "s", "i", "u", "s">>,
     <<"t", "s">>,
     <<"v", "a", "l", "u", "e", "1">>,
     <<"v", "a", "l", "u", "e", "2">>,
     <<"t", "e", "m", "p", "_", "t", "i", "m", "e">>}

\* Headers of distinct names; one row decides which columns are numeric.
HeaderTables ==
    {[columns |-> [k \in 1..Len(h) |-> h[k][1]],
      rows |-> <<[k \in 1..Len(h) |-> h[k][2]]>>,
      tz |-> FALSE] :
        h \in {q \in SeqsUpTo(ColumnNames \X {NumCell(20), TextCell}, MaxCols) :
                  \A i, j \in 1..Len(q) : q[i][1] = q[j][1] => i = j}}

InitCols ==
    /\ pc = "call"
    /\ input \in HeaderTables
    /\ result = None
    /\ Idle

CallIdentifyTemperatureColumns ==
    /\ pc = "call"
    /\ result' = _identify_temperature_columns(input)
    /\ pc' = "return"
    /\ UNCHANGED <<input, temperature_df, spot_df, merged, files, reads>>

SpecCols == InitCols /\ [][CallIdentifyTemperatureColumns]_vars

MinOf(S) == CHOOSE k \in S : \A j \in S : k <= j

\* The timestamp column of the claim: the first time-like name, else the first
\* column.
ClaimedTimestampColumn(df) ==
    LET timeLike == {k \in 1..Len(df.columns) : TimeLike(df.columns[k])}
    IN  IF timeLike = {} THEN 1 ELSE MinOf(timeLike)

\* The temperature column picked among `allowed`: the first temperature-like
\* name, else the first numeric column; 0 when there is none.
PickTemperatureColumn(df, allowed) ==
    LET tempLike == {k \in allowed : TempLike(df.columns[k])}
        numeric == {k \in allowed : is_numeric_dtype(df, k)}
    IN  IF tempLike # {} THEN MinOf(tempLike)
        ELSE IF numeric # {} THEN MinOf(numeric)
        ELSE 0

ResultIsColumns(df, ts, temp) ==
    IF Len(df.columns) = 0 \/ temp = 0 THEN result.exc \notin {"none", "pending"}
    ELSE result = Return(<<df.columns[ts], df.columns[temp]>>)

\* C9 as stated: the temperature column is searched among all columns other
\* than the one selected timestamp column.
C9_TemperatureAmongAllButChosen ==
    pc = "return" =>
        LET ts == ClaimedTimestampColumn(input)
        IN  ResultIsColumns(input, ts,
                PickTemperatureColumn(input, (1..Len(input.columns)) \ {ts}))

\* C9 amended: the timestamp column is the first time-like name, else the
\* first column; the temperature column is searched among the columns that
\* are not time-like (when no name is time-like: among all but the first
\* column), first by temperature-like name, else by numeric type; the call
\* fails exactly when that search finds nothing.
C9_TemperatureAmongNonTimeLike ==
    pc = "return" =>
        LET cols == 1..Len(input.columns)
            timeLike == {k \in cols : TimeLike(input.columns[k])}
            excluded == IF timeLike = {} THEN {1} ELSE timeLike
        IN  ResultIsColumns(input, ClaimedTimestampColumn(input),
                PickTemperatureColumn(input, cols \ excluded))

\* A second time-like column that is also temperature-like was passed over:
\* the call returned a later column.
C9_Witness ==
    /\ pc = "return"
    /\ result.exc = "none"
    /\ \E k \in 1..Len(input.columns) :
          /\ TimeLike(input.columns[k])
          /\ TempLike(input.columns[k])
          /\ input.columns[k] # result.val[1]
          /\ \E j \in (k + 1)..Len(input.columns) : input.columns[j] = result.val[2]

\* ---------------------------------------------------- load_temperature_data
NaT == [nat |-> TRUE, t |-> 0]

Instant(t) == [nat |-> FALSE, t |-> t]

DateParseError == "ValueError: unknown datetime string format"

\* pd.to_datetime of one cell: an empty cell is NaT, text that is no date
\* raises (no errors="coerce" is passed).
to_datetime(cell) ==
    CASE cell.kind = "time" -> Return(Instant(cell.v))
      [] cell.kind = "num" -> Return(Instant(cell.v))
      [] cell.kind = "na" -> Return(NaT)
      [] OTHER -> Raise(DateParseError)

\* pd.to_numeric(..., errors="coerce") of one cell.
to_numeric(cell) == IF cell.kind = "num" THEN Num(cell.v) ELSE NaN

\* dropna(subset=["timestamp", "temperature_C"])
dropna(rows) ==
    SelectSeq(rows, LAMBDA r : ~r.timestamp.nat /\ ~r.temperature_C.nan)

Orders(n) == {f \in [1..n -> 1..n] : \A i, j \in 1..n : f[i] = f[j] => i = j}

\* The rows in the order of the file, not sorted.
sort_values_skipped(rows) == {rows}

\* sort_values("timestamp"): the rows in non-decreasing timestamp order, NaT
\* last.  The default sort is not stable: rows of equal timestamp come out in
\* any order.
sort_values(rows) ==
    LET Before(a, b) == IF b.nat THEN TRUE ELSE (~a.nat /\ a.t <= b.t)
    IN  {[i \in 1..Len(rows) |-> rows[f[i]]] :
            f \in {g \in Orders(Len(rows)) :
                      \A i \in 1..(Len(rows) - 1) :
                          Before(rows[g[i]].timestamp, rows[g[i + 1]].timestamp)}}

\* Whether the parsed timestamp column is timezone-aware.
TzAware(df, k) == df.tz /\ \E i \in 1..Len(df.rows) : df.rows[i][k].kind = "time"

\* The possible outcomes of load_temperature_data on the table read from the
\* file: an error, or a frame [rows, tz] for each order the sort may leave.
load_temperature_data(df) ==
    LET columns == _identify_temperature_columns(df)
        timestamp_col == ColumnIndex(df, columns.val[1])
        temperature_col == ColumnIndex(df, columns.val[2])
        parsed == [i \in 1..Len(df.rows) |->
                      [timestamp |-> to_datetime(df.rows[i][timestamp_col]).val,
                       temperature_C |-> to_numeric(df.rows[i][temperature_col])]]
    IN  IF columns.exc # "none" THEN {columns}
        ELSE IF \E i \in 1..Len(df.rows) :
                    to_datetime(df.rows[i][timestamp_col]).exc # "none"
        THEN {Raise(DateParseError)}
        ELSE {Return([rows |-> sorted, tz |-> TzAware(df, timestamp_col)]) :
                 sorted \in sort_values(dropna(parsed))}

\* ------------------------------------------------- the loader, on its own
MaxTempRows == 3

\* 2024-05-22 15:30:00, the start instant in StandardName.
StartInstant == DatetimeSeconds(2024, 5, 22, 15, 30, 0)

TemperatureTables ==
    {[columns |-> h, rows |-> r, tz |-> FALSE] :
        h \in {<<<<"T", "i", "m", "e">>, <<"T", "e", "m", "p", "C">>>>,
               <<<<"t", "s">>, <<"v", "a", "l", "u", "e", "1">>>>},
        r \in SeqsUpTo({<<c1, c2>> :
                  c1 \in {TimeCell(StartInstant), TimeCell(StartInstant + 30),
                          TextCell, EmptyCell},
                  c2 \in {NumCell(20), NumCell(21), TextCell}},
               MaxTempRows)}

InitTemp ==
    /\ pc = "call"
    /\ input \in TemperatureTables
    /\ result = None
    /\ Idle

CallLoadTemperatureData ==
    /\ pc = "call"
    /\ result' \in load_temperature_data(input)
    /\ reads' = reads \cup {"temperature"}
    /\ pc' = "return"
    /\ UNCHANGED <<input, temperature_df, spot_df, merged, files>>

SpecTemp == InitTemp /\ [][CallLoadTemperatureData]_vars

IsPermutation(a, b) ==
    /\ Len(a) = Len(b)
    /\ \E f \in Orders(Len(a)) : \A i \in 1..Len(a) : a[i] = b[f[i]]

\* The rows of the table in which both the timestamp cell and the temperature
\* cell hold a value of their kind, as readings.
RowsThatParse(df) ==
    LET columns == _identify_temperature_columns(df).val
        ts == ColumnIndex(df, columns[1])
        temp == ColumnIndex(df, columns[2])
        good == SelectSeq(df.rows, LAMBDA r : r[ts].kind \in {"time", "num"}
                                              /\ r[temp].kind = "num")
    IN  [i \in 1..Len(good) |->
            [timestamp |-> Instant(good[i][ts].v), temperature_C |-> Num(good[i][temp].v)]]

\* C4: when the columns can be inferred the load succeeds, and returns exactly
\* the rows in which both fields parsed: a row with an unparseable timestamp
\* or temperature is dropped and never aborts the load.
C4_BadRowsAreDroppedNeverAbort ==
    (pc = "return" /\ _identify_temperature_columns(input).exc = "none") =>
        /\ result.exc = "none"
        /\ IsPermutation(result.val.rows, RowsThatParse(input))

\* C5: a returned frame is in non-decreasing timestamp order, has no NaN
\* temperature and no missing timestamp, and holds every row that parsed,
\* rows of equal timestamp included.
C5_SortedCleanAndComplete ==
    (pc = "return" /\ result.exc = "none") =>
        LET out == result.val.rows
        IN  /\ \A i \in 1..(Len(out) - 1) : out[i].timestamp.t <= out[i + 1].timestamp.t
            /\ \A i \in 1..Len(out) : ~out[i].timestamp.nat /\ ~out[i].temperature_C.nan
            /\ IsPermutation(out, RowsThatParse(input))

\* Three rows came back, two of them with the same timestamp, from a file
\* whose rows were not in time order.
C5_Witness ==
    /\ pc = "return"
    /\ result.exc = "none"
    /\ Len(result.val.rows) = 3
    /\ result.val.rows[1].timestamp = result.val.rows[2].timestamp
    /\ result.val.rows[2].timestamp.t < result.val.rows[3].timestamp.t
    /\ input.rows[1][1] = TimeCell(result.val.rows[3].timestamp.t)

\* ------------------------------------------------- plot_r2_vs_temperature
MergeError == "MergeError: incompatible merge keys, must be the same type"

Abs(x) == IF x < 0 THEN -x ELSE x

\* direction="backward": the last right row at or before t, 0 when none.
BackwardIndex(right, t) ==
    LET at == {j \in 1..Len(right) : right[j].timestamp.t <= t}
    IN  IF at = {} THEN 0 ELSE CHOOSE j \in at : \A k \in at : k <= j

\* direction="forward": the first right row at or after t, 0 when none.
ForwardIndex(right, t) ==
    LET at == {j \in 1..Len(right) : right[j].timestamp.t >= t}
    IN  IF at = {} THEN 0 ELSE CHOOSE j \in at : \A k \in at : j <= k

\* direction="backward" in place of "nearest".
BackwardOnlyIndex(right, t) == BackwardIndex(right, t)

\* direction="nearest": of the backward and the forward match the closer one,
\* the backward one on a tie; 0 when the right side is empty.
NearestIndex(right, t) ==
    LET b == BackwardIndex(right, t)
        f == ForwardIndex(right, t)
    IN  IF b # 0 /\ f # 0
        THEN (IF t - right[b].timestamp.t <= right[f].timestamp.t - t THEN b ELSE f)
        ELSE (IF b # 0 THEN b ELSE f)

\* A left row with the temperature of right row j (NaN when j = 0).
AlignedRow(l, right, j) ==
    [frame_index |-> l.frame_index,
     timestamp |-> l.timestamp,
     r_squared_shift_mm2 |-> l.r_squared_shift_mm2,
     temperature_C |-> IF j = 0 THEN NaN ELSE right[j].temperature_C]

\* An inner join: left rows without a match are dropped.
merge_asof_inner(left, right) ==
    LET matched == SelectSeq(left, LAMBDA l : NearestIndex(right, l.timestamp.t) # 0)
    IN  [i \in 1..Len(matched) |->
            AlignedRow(matched[i], right, NearestIndex(right, matched[i].timestamp.t))]

\* pd.merge_asof(left, right, on="timestamp", direction="nearest") on sorted
\* frames: one row per left row, in the order of the left frame.
merge_asof(left, right) ==
    [i \in 1..Len(left) |->
        AlignedRow(left[i], right, NearestIndex(right, left[i].timestamp.t))]

\* The spot frame with its timestamp as the merge key.
SpotKeyed(frames) ==
    [i \in 1..Len(frames) |->
        [frame_index |-> frames[i].frame_index,
         timestamp |-> Instant(frames[i].timestamp),
         r_squared_shift_mm2 |-> frames[i].r_squared_shift_mm2]]

\* The possible outcomes of the alignment in plot_r2_vs_temperature: an error
\* when the two timestamp columns differ in type (the spot timestamps are
\* naive), else the merge of the two frames in each order the sorts may leave.
Alignment(temp, spot) ==
    IF temp.tz THEN {Raise(MergeError)}
    ELSE {Return(merge_asof(left, right)) :
             left \in sort_values(SpotKeyed(spot)), right \in sort_values(temp.rows)}

\* -------------------------------------------------------------------- main
MainTempRows == 2

MainSpotRows == 2

TimeSeriesChart == "spot_parameters_vs_time.png"

ShiftChart == "spot_shift_vs_temperature.png"

MainTemperatureFiles ==
    {[columns |-> <<<<"T", "i", "m", "e">>, <<"T", "e", "m", "p", "C">>>>, rows |-> r, tz |-> z] :
        z \in BOOLEAN,
        r \in SeqsUpTo({<<c1, c2>> :
                  c1 \in {TimeCell(StartInstant + 30), TextCell},
                  c2 \in {NumCell(20), TextCell}},
               MainTempRows)}

MainSpotFiles ==
    [name : {StandardName},
     columns : {AllColumns},
     rows : SeqsUpTo({SpotRow(f, x, <<"1">>, <<"0">>) :
                         f \in {<<"0">>, <<"1">>}, x \in {<<"1">>, <<"1", ",", "2">>}},
                     MainSpotRows)]

Init ==
    /\ pc = "load_temperature_data"
    /\ input \in [temperature_file : MainTemperatureFiles, spot_file : MainSpotFiles]
    /\ result = None
    /\ Idle

\* Line 244.
LoadTemperatureData ==
    /\ pc = "load_temperature_data"
    /\ \E r \in load_temperature_data(input.temperature_file) :
          IF r.exc = "none"
          THEN /\ temperature_df' = r.val
               /\ pc' = "load_spot_positions"
               /\ UNCHANGED result
          ELSE /\ result' = r
               /\ pc' = "failed"
               /\ UNCHANGED temperature_df
    /\ reads' = reads \cup {"temperature"}
    /\ UNCHANGED <<input, spot_df, merged, files>>

\* Line 245.
LoadSpotPositions ==
    /\ pc = "load_spot_positions"
    /\ LET r == load_spot_positions(input.spot_file)
       IN  IF r.exc = "none"
           THEN /\ spot_df' = r.val
                /\ pc' = "plot_time_series"
                /\ UNCHANGED result
           ELSE /\ result' = r
                /\ pc' = "failed"
                /\ UNCHANGED spot_df
    /\ reads' = IF SpotBodyRead(input.spot_file) THEN reads \cup {"spot"} ELSE reads
    /\ UNCHANGED <<input, temperature_df, merged, files>>

\* Line 248: plot_time_series draws both frames and saves the first chart.
PlotTimeSeries ==
    /\ pc = "plot_time_series"
    /\ files' = files \cup {TimeSeriesChart}
    /\ pc' = "plot_r2_vs_temperature"
    /\ UNCHANGED <<input, result, temperature_df, spot_df, merged, reads>>

\* plot_r2_vs_temperature with the chart saved before the frames are aligned.
PlotR2SavesBeforeAligning ==
    /\ pc = "plot_r2_vs_temperature"
    /\ files' = files \cup {ShiftChart}
    /\ \E r \in Alignment(temperature_df, spot_df) :
          IF r.exc = "none"
          THEN /\ merged' = r.val
               /\ pc' = "done"
               /\ UNCHANGED result
          ELSE /\ result' = r
               /\ pc' = "failed"
               /\ UNCHANGED merged
    /\ UNCHANGED <<input, temperature_df, spot_df, reads>>

\* Line 249: plot_r2_vs_temperature aligns, then saves the second chart.
PlotR2VsTemperature ==
    /\ pc = "plot_r2_vs_temperature"
    /\ \E r \in Alignment(temperature_df, spot_df) :
          IF r.exc = "none"
          THEN /\ merged' = r.val
               /\ files' = files \cup {ShiftChart}
               /\ pc' = "done"
               /\ UNCHANGED result
          ELSE /\ result' = r
               /\ pc' = "failed"
               /\ UNCHANGED <<merged, files>>
    /\ UNCHANGED <<input, temperature_df, spot_df, reads>>

Next ==
    \/ LoadTemperatureData
    \/ LoadSpotPositions
    \/ PlotTimeSeries
    \/ PlotR2VsTemperature

Spec == Init /\ [][Next]_vars

BothCharts == {TimeSeriesChart, ShiftChart}

\* C1 as stated: no chart is written before the alignment has succeeded, and
\* a run that has ended wrote both charts or none.
C1_NoChartBeforeAlignment ==
    /\ files # {} => pc = "done"
    /\ pc \in {"done", "failed"} => files \in {{}, BothCharts}

\* C1 amended: no chart is written before both loaders have succeeded, and
\* spot_shift_vs_temperature.png is written only once the alignment has
\* succeeded; spot_parameters_vs_time.png is written before the alignment is
\* attempted, so a run whose alignment fails leaves that one chart, a run
\* whose loader fails leaves none, and a run that completes leaves both.
C1_ChartsFollowTheirOwnSteps ==
    /\ pc \in {"load_temperature_data", "load_spot_positions", "plot_time_series"}
          => files = {}
    /\ pc = "plot_r2_vs_temperature" => files = {TimeSeriesChart}
    /\ pc = "done" => files = BothCharts
    /\ pc = "failed" =>
          files = IF result.exc = MergeError THEN {TimeSeriesChart} ELSE {}

\* A run whose alignment failed after the first chart was written.
C1_Witness ==
    /\ pc = "failed"
    /\ result.exc = MergeError
    /\ files = {TimeSeriesChart}

\* ------------------------------------------------ the alignment, on its own
AlignTempRows == 2

AlignSpotRows == 2

\* Readings half a minute before the start, half a minute and 70 seconds
\* after it, and a day after it.
AlignReadings ==
    {[timestamp |-> Instant(StartInstant + d), temperature_C |-> Num(c)] :
        d \in {-30, 30, 70, 86400}, c \in {20, 21}}

\* Frames as the spot loader leaves them: the timestamp is the start plus
\* frame_index minutes.
AlignFrames ==
    {[frame_index |-> f, timestamp |-> StartInstant + 60 * f,
      r_squared_shift_mm2 |-> Num(r)] : f \in {0, 1}, r \in {0, 400}}

InitAlign ==
    /\ pc = "plot_r2_vs_temperature"
    /\ input = <<>>
    /\ result = None
    /\ temperature_df \in [rows : SeqsUpTo(AlignReadings, AlignTempRows), tz : BOOLEAN]
    /\ spot_df \in SeqsUpTo(AlignFrames, AlignSpotRows)
    /\ merged = <<>>
    /\ files = {}
    /\ reads = {}

SpecAlign == InitAlign /\ [][PlotR2VsTemperature]_vars

C3_AttachedReadingIsNearest ==
    (pc = "done" /\ temperature_df.rows # <<>>) =>
        \A i \in 1..Len(merged) :
            \E j \in 1..Len(temperature_df.rows) :
                /\ temperature_df.rows[j].temperature_C = merged[i].temperature_C
                /\ \A k \in 1..Len(temperature_df.rows) :
                      Abs(temperature_df.rows[j].timestamp.t - merged[i].timestamp.t)
                          <= Abs(temperature_df.rows[k].timestamp.t - merged[i].timestamp.t)

\* A frame took the temperature of a later reading although an earlier
\* reading with another temperature was there, farther away.
C3_Witness ==
    /\ pc = "done"
    /\ \E i \in 1..Len(merged) : \E j, k \in 1..Len(temperature_df.rows) :
          /\ temperature_df.rows[j].timestamp.t > merged[i].timestamp.t
          /\ temperature_df.rows[k].timestamp.t < merged[i].timestamp.t
          /\ temperature_df.rows[j].temperature_C = merged[i].temperature_C
          /\ temperature_df.rows[k].temperature_C # merged[i].temperature_C

=============================================================================
